---- MODULE Spec2Model ----
(***************************************************************************)
(* Model of model.py (MSA-GRU): construction of the modules LayerNorm,     *)
(* GSAU, MLKA, MAB, MCA and Our, and their forward passes.                 *)
(*                                                                         *)
(* Spec follows shapes: a tensor is represented by its shape, a framework  *)
(* operator by the shape it returns or the error it raises.                *)
(* SpecValue follows contents: the statements of the forward passes run on *)
(* a model of the storage they read and write, over repeated calls.        *)
(***************************************************************************)
EXTENDS Integers, Sequences, FiniteSets, TLC

VARIABLES op, init_args, call_args, obj, exc, built, out,
          params, sensor_accel, sensor_gyro, hn, y_pred, seen

vars == <<op, init_args, call_args, obj, exc, built, out,
          params, sensor_accel, sensor_gyro, hn, y_pred, seen>>

shapeVars == <<op, init_args, call_args, obj, exc, built, out>>
valueVars == <<params, sensor_accel, sensor_gyro, hn, y_pred, seen>>

(* ---------------------------- bounds ----------------------------------- *)
MaxFeats == 12
MaxBatch == 2
MaxLen == 306

FeatRange == (0 - MaxFeats)..MaxFeats
Batches == 1..MaxBatch
Lengths == 1..MaxLen

(* ---------------------- exceptions and values -------------------------- *)
NoExc == [type |-> "none", origin |-> "none"]
Exc(type, origin) == [type |-> type, origin |-> origin]
TorchError == Exc("RuntimeError", "torch")
UnpackError == Exc("ValueError", "python")
NoneTypeError == Exc("TypeError", "torch")

NoObject == [cls |-> "none"]

\* a shape is kept as an explicit tuple of dimensions
Tensor(s) == [kind |-> "tensor", shape |-> SubSeq(s, 1, Len(s)), exc |-> NoExc]
Raised(e) == [kind |-> "raise", shape |-> <<>>, exc |-> e]
NoneValue == [kind |-> "None", shape |-> <<>>, exc |-> NoExc]
IsTensor(v) == v.kind = "tensor"

\* the first operand that is not a tensor decides the outcome of an operator
Blocked(v) == IF v.kind = "raise" THEN v ELSE Raised(NoneTypeError)

CeilDiv(a, b) == (a + b - 1) \div b

(* ------------------------ construction helpers ------------------------- *)
Ok(v) == [exc |-> NoExc, obj |-> v]
Fail(e) == [exc |-> e, obj |-> NoObject]

FirstFail(steps) ==
    LET bad == {i \in 1..Len(steps) : steps[i][2].exc # NoExc}
    IN  IF bad = {} THEN 0 ELSE CHOOSE i \in bad : \A j \in bad : i <= j

\* the attributes assigned by the first n steps, in order
RECURSIVE BuiltNames(_, _)
BuiltNames(steps, n) ==
    IF n = 0 THEN <<>>
    ELSE IF steps[n][1] = "" THEN BuiltNames(steps, n - 1)
    ELSE Append(BuiltNames(steps, n - 1), steps[n][1])

\* the object's attribute dictionary after the first n steps, as the sequence
\* of <<attribute, value>> pairs in assignment order
RECURSIVE AttrsOf(_, _)
AttrsOf(steps, n) ==
    IF n = 0 THEN <<>>
    ELSE IF steps[n][1] = "" THEN AttrsOf(steps, n - 1)
    ELSE Append(AttrsOf(steps, n - 1), <<steps[n][1], steps[n][2].obj>>)

\* self.<name>
Attr(m, name) ==
    m.attrs[CHOOSE i \in 1..Len(m.attrs) : m.attrs[i][1] = name][2]

\* An __init__ body as a sequence of <<attribute, result>> steps run in order;
\* a step named "" is a statement that assigns no attribute.
Assemble(cls, steps) ==
    LET k == FirstFail(steps)
    IN  IF k # 0
        THEN [exc |-> steps[k][2].exc, obj |-> NoObject, built |-> BuiltNames(steps, k - 1)]
        ELSE [exc |-> NoExc,
              obj |-> [cls |-> cls, attrs |-> AttrsOf(steps, Len(steps))],
              built |-> BuiltNames(steps, Len(steps))]

(* --------------------------- torch layers ------------------------------ *)
\* torch.ones / torch.zeros / torch.empty: a negative dimension is an error
TensorAlloc(s) ==
    IF \E i \in 1..Len(s) : s[i] < 0 THEN Fail(TorchError)
    ELSE Ok([cls |-> "Parameter", shape |-> s])

Conv1d_init(in_channels, out_channels, kernel_size, stride, padding, groups, dilation) ==
    IF groups <= 0 THEN Fail(Exc("ValueError", "torch"))
    ELSE IF in_channels % groups # 0 \/ out_channels % groups # 0
         THEN Fail(Exc("ValueError", "torch"))
    ELSE IF in_channels < 0 \/ out_channels < 0 THEN Fail(TorchError)
    ELSE Ok([cls |-> "Conv1d", in_channels |-> in_channels, out_channels |-> out_channels,
             kernel_size |-> kernel_size, stride |-> stride, padding |-> padding,
             groups |-> groups, dilation |-> dilation])

\* faulty variant: the output length without its final "+ 1"
Conv1d_forward_short(c, v) ==
    IF ~IsTensor(v) THEN Blocked(v)
    ELSE LET s == v.shape
             span == c.dilation * (c.kernel_size - 1) + 1
         IN  IF Len(s) # 3 \/ s[2] # c.in_channels THEN Raised(TorchError)
             ELSE IF s[3] + 2 * c.padding < span THEN Raised(TorchError)
             ELSE Tensor(<<s[1], c.out_channels,
                           (s[3] + 2 * c.padding - span) \div c.stride>>)

Conv1d_forward(c, v) ==
    IF ~IsTensor(v) THEN Blocked(v)
    ELSE LET s == v.shape
             span == c.dilation * (c.kernel_size - 1) + 1
         IN  IF Len(s) # 3 \/ s[2] # c.in_channels THEN Raised(TorchError)
             ELSE IF s[3] + 2 * c.padding < span THEN Raised(TorchError)
             ELSE Tensor(<<s[1], c.out_channels,
                           ((s[3] + 2 * c.padding - span) \div c.stride) + 1>>)

RECURSIVE LayersOf(_, _)
LayersOf(rs, n) == IF n = 0 THEN <<>> ELSE Append(LayersOf(rs, n - 1), rs[n].obj)

Sequential_init(rs) ==
    LET bad == {i \in 1..Len(rs) : rs[i].exc # NoExc}
    IN  IF bad # {} THEN Fail(rs[CHOOSE i \in bad : \A j \in bad : i <= j].exc)
        ELSE Ok([cls |-> "Sequential", layers |-> LayersOf(rs, Len(rs))])

Linear_init(in_features, out_features) ==
    IF in_features < 0 \/ out_features < 0 THEN Fail(TorchError)
    ELSE Ok([cls |-> "Linear", in_features |-> in_features, out_features |-> out_features])

Linear_forward(l, v) ==
    IF ~IsTensor(v) THEN Blocked(v)
    ELSE LET s == v.shape
         IN  IF Len(s) = 0 \/ s[Len(s)] # l.in_features THEN Raised(TorchError)
             ELSE Tensor([i \in 1..Len(s) |-> IF i = Len(s) THEN l.out_features ELSE s[i]])

GRU_init(input_size, hidden_size, num_layers, bidirectional) ==
    Ok([cls |-> "GRU", input_size |-> input_size, hidden_size |-> hidden_size,
        num_layers |-> num_layers, bidirectional |-> bidirectional])

\* faulty variant: the size of the input's last dimension is not checked
GRU_forward_unchecked(g, v) ==
    IF ~IsTensor(v) THEN Blocked(v)
    ELSE LET s == v.shape
         IN  IF Len(s) # 3 THEN Raised(TorchError)
             ELSE Tensor(<<s[1], s[2],
                           (IF g.bidirectional THEN 2 ELSE 1) * g.hidden_size>>)

\* batch_first GRU on a (B, T, input_size) tensor; the output half of (output, h_n)
GRU_forward(g, v) ==
    IF ~IsTensor(v) THEN Blocked(v)
    ELSE LET s == v.shape
         IN  IF Len(s) # 3 \/ s[3] # g.input_size THEN Raised(TorchError)
             ELSE Tensor(<<s[1], s[2],
                           (IF g.bidirectional THEN 2 ELSE 1) * g.hidden_size>>)

RECURSIVE Product(_)
Product(s) == IF s = <<>> THEN 1 ELSE s[1] * Product(Tail(s))

Flatten_forward(v) ==
    IF ~IsTensor(v) THEN Blocked(v)
    ELSE IF Len(v.shape) < 2 THEN v
    ELSE Tensor(<<v.shape[1], Product(Tail(v.shape))>>)

(* ------------------------- tensor operators ---------------------------- *)
PadLeft(s, n) ==
    LET p == [i \in 1..n |-> IF i <= n - Len(s) THEN 1 ELSE s[i - (n - Len(s))]]
    IN  SubSeq(p, 1, n)

\* shape of an elementwise binary operator under broadcasting
Elementwise(v, w) ==
    IF ~IsTensor(v) THEN Blocked(v)
    ELSE IF ~IsTensor(w) THEN Blocked(w)
    ELSE LET n == IF Len(v.shape) >= Len(w.shape) THEN Len(v.shape) ELSE Len(w.shape)
             a == PadLeft(v.shape, n)
             b == PadLeft(w.shape, n)
         IN  IF \E i \in 1..n : a[i] # b[i] /\ a[i] # 1 /\ b[i] # 1
             THEN Raised(TorchError)
             ELSE Tensor([i \in 1..n |-> IF a[i] = 1 THEN b[i] ELSE a[i]])

\* x.mean(1, keepdim=True)
Mean1(v) ==
    IF ~IsTensor(v) THEN Blocked(v)
    ELSE IF Len(v.shape) < 2 THEN Raised(TorchError)
    ELSE Tensor([i \in 1..Len(v.shape) |-> IF i = 2 THEN 1 ELSE v.shape[i]])

\* torch.chunk(x, chunks, dim=1): the tuple of pieces
Chunk(v, chunks) ==
    IF ~IsTensor(v) THEN <<Blocked(v)>>
    ELSE IF Len(v.shape) < 2 THEN <<Raised(TorchError)>>
    ELSE LET c == v.shape[2]
             size == CeilDiv(c, chunks)
             count == IF c = 0 THEN 1 ELSE CeilDiv(c, size)
             piece(i) == IF i < count THEN size ELSE c - size * (count - 1)
             pieces == [i \in 1..count |->
                Tensor([d \in 1..Len(v.shape) |-> IF d = 2 THEN piece(i) ELSE v.shape[d]])]
         IN  SubSeq(pieces, 1, count)

\* "a, b = pieces": the tuple must have exactly n elements
Unpack(pieces, n) ==
    IF Len(pieces) = 1 /\ ~IsTensor(pieces[1])
    THEN SubSeq([i \in 1..n |-> pieces[1]], 1, n)
    ELSE IF Len(pieces) # n THEN SubSeq([i \in 1..n |-> Raised(UnpackError)], 1, n)
    ELSE pieces

RECURSIVE SumChannels(_)
SumChannels(vs) == IF vs = <<>> THEN 0 ELSE vs[1].shape[2] + SumChannels(Tail(vs))

\* torch.cat(vs, dim=1)
Cat1(vs) ==
    LET bad == {i \in 1..Len(vs) : ~IsTensor(vs[i])}
    IN  IF bad # {} THEN Blocked(vs[CHOOSE i \in bad : \A j \in bad : i <= j])
        ELSE IF \E i \in 1..Len(vs) :
                   \/ Len(vs[i].shape) # Len(vs[1].shape)
                   \/ Len(vs[i].shape) < 2
                   \/ \E d \in 1..Len(vs[i].shape) : d # 2 /\ vs[i].shape[d] # vs[1].shape[d]
             THEN Raised(TorchError)
        ELSE Tensor([d \in 1..Len(vs[1].shape) |->
                       IF d = 2 THEN SumChannels(vs) ELSE vs[1].shape[d]])

\* module(x): nn.Module.__call__ runs the forward of the module's class
RECURSIVE ModuleCall(_, _)

RECURSIVE Sequential_forward(_, _)
Sequential_forward(layers, v) ==
    IF layers = <<>> THEN v
    ELSE LET y == ModuleCall(layers[1], v)
         IN  Sequential_forward(Tail(layers), y)

(* ------------------------------ LayerNorm ------------------------------ *)
RecognizedFormats == {"channels_last", "channels_first"}

\* faulty variant: the layout string is not validated
LayerNorm_check_missing(data_format) == Ok(TRUE)

LayerNorm_check(data_format) ==
    IF data_format \notin RecognizedFormats
    THEN Fail(Exc("NotImplementedError", "LayerNorm"))
    ELSE Ok(TRUE)

LayerNorm_init(normalized_shape, data_format) ==
    Assemble("LayerNorm",
        << <<"weight", TensorAlloc(<<normalized_shape>>)>>,
           <<"bias", TensorAlloc(<<normalized_shape>>)>>,
           <<"eps", Ok("1e-6")>>,
           <<"data_format", Ok(data_format)>>,
           <<"", LayerNorm_check(data_format)>>,
           <<"normalized_shape", Ok(<<normalized_shape>>)>> >>)

\* F.layer_norm(x, normalized_shape, weight, bias, eps)
FLayerNorm(v, normalized_shape) ==
    IF ~IsTensor(v) THEN Blocked(v)
    ELSE LET s == v.shape
             k == Len(normalized_shape)
         IN  IF Len(s) < k \/ SubSeq(s, Len(s) - k + 1, Len(s)) # normalized_shape
             THEN Raised(TorchError)
             ELSE v

\* weight[:, None]
Unsqueeze1(p) == Tensor(p.shape \o <<1>>)

LayerNorm_forward(m, x) ==
    IF Attr(m, "data_format") = "channels_last"
    THEN FLayerNorm(x, Attr(m, "normalized_shape"))
    ELSE IF Attr(m, "data_format") = "channels_first"
    THEN LET u == Mean1(x)
             d == Elementwise(x, u)
             s == Mean1(d)
             x1 == Elementwise(d, s)
             x2 == Elementwise(Unsqueeze1(Attr(m, "weight")), x1)
         IN  Elementwise(x2, Unsqueeze1(Attr(m, "bias")))
    ELSE NoneValue

(* -------------------------------- GSAU --------------------------------- *)
\* faulty variant: the layout string passed to LayerNorm is misspelt
GSAU_init_typo(n_feats) ==
    LET i_feats == n_feats * 2
    IN  Assemble("GSAU",
        << <<"Conv1", Conv1d_init(n_feats, i_feats, 1, 1, 0, 1, 1)>>,
           <<"DWConv1", Conv1d_init(n_feats, n_feats, 7, 1, 7 \div 2, n_feats, 1)>>,
           <<"Conv2", Conv1d_init(n_feats, n_feats, 1, 1, 0, 1, 1)>>,
           <<"norm", LayerNorm_init(n_feats, "channel_first")>>,
           <<"scale", TensorAlloc(<<1, n_feats, 1>>)>> >>)

GSAU_init(n_feats) ==
    LET i_feats == n_feats * 2
    IN  Assemble("GSAU",
        << <<"Conv1", Conv1d_init(n_feats, i_feats, 1, 1, 0, 1, 1)>>,
           <<"DWConv1", Conv1d_init(n_feats, n_feats, 7, 1, 7 \div 2, n_feats, 1)>>,
           <<"Conv2", Conv1d_init(n_feats, n_feats, 1, 1, 0, 1, 1)>>,
           <<"norm", LayerNorm_init(n_feats, "channels_first")>>,
           <<"scale", TensorAlloc(<<1, n_feats, 1>>)>> >>)

GSAU_forward(m, x0) ==
    LET shortcut == x0
        x1 == ModuleCall(Attr(m, "norm"), x0)
        x2 == ModuleCall(Attr(m, "Conv1"), x1)
        ps == Chunk(x2, 2)
        ax == Unpack(ps, 2)
        g == ModuleCall(Attr(m, "DWConv1"), ax[1])
        x3 == Elementwise(ax[2], g)
        x4 == ModuleCall(Attr(m, "Conv2"), x3)
        x5 == Elementwise(x4, Tensor(Attr(m, "scale").shape))
    IN  Elementwise(x5, shortcut)

(* -------------------------------- MLKA --------------------------------- *)
\* faulty variant: the divisibility test inverted
MLKA_check_inverted(n_feats) ==
    IF n_feats % 3 = 0
    THEN Fail(Exc("ValueError", "MLKA"))
    ELSE Ok(TRUE)

MLKA_check(n_feats) ==
    IF n_feats % 3 # 0
    THEN Fail(Exc("ValueError", "MLKA"))
    ELSE Ok(TRUE)

\* faulty variant: the padding of the dilated convolution ignores the dilation
LKA_init_undilated_padding(c, k1, k2, d) ==
    Sequential_init(<< Conv1d_init(c, c, k1, 1, k1 \div 2, c, 1),
                       Conv1d_init(c, c, k2, 1, k2 \div 2, c, d),
                       Conv1d_init(c, c, 1, 1, 0, 1, 1) >>)

\* one large-kernel branch: depthwise k1, depthwise dilated k2, pointwise
LKA_init(c, k1, k2, d) ==
    Sequential_init(<< Conv1d_init(c, c, k1, 1, k1 \div 2, c, 1),
                       Conv1d_init(c, c, k2, 1, (k2 \div 2) * d, c, d),
                       Conv1d_init(c, c, 1, 1, 0, 1, 1) >>)

MLKA_init(n_feats) ==
    LET i_feats == 2 * n_feats
        c == n_feats \div 3
    IN  Assemble("MLKA",
        << <<"", MLKA_check(n_feats)>>,
           <<"norm", LayerNorm_init(n_feats, "channels_first")>>,
           <<"scale", TensorAlloc(<<1, n_feats, 1>>)>>,
           <<"LKA7", LKA_init(c, 7, 9, 4)>>,
           <<"LKA5", LKA_init(c, 5, 7, 3)>>,
           <<"LKA3", LKA_init(c, 3, 5, 2)>>,
           <<"X3", Conv1d_init(c, c, 3, 1, 1, c, 1)>>,
           <<"X5", Conv1d_init(c, c, 5, 1, 5 \div 2, c, 1)>>,
           <<"X7", Conv1d_init(c, c, 7, 1, 7 \div 2, c, 1)>>,
           <<"proj_first", Sequential_init(<<Conv1d_init(n_feats, i_feats, 1, 1, 0, 1, 1)>>)>>,
           <<"proj_last", Sequential_init(<<Conv1d_init(n_feats, n_feats, 1, 1, 0, 1, 1)>>)>> >>)

MLKA_forward(m, x0) ==
    LET shortcut == x0
        x1 == ModuleCall(Attr(m, "norm"), x0)
        x2 == ModuleCall(Attr(m, "proj_first"), x1)
        ps == Chunk(x2, 2)
        ax == Unpack(ps, 2)
        as == Chunk(ax[1], 3)
        a == Unpack(as, 3)
        l3 == ModuleCall(Attr(m, "LKA3"), a[1])
        l5 == ModuleCall(Attr(m, "LKA5"), a[2])
        l7 == ModuleCall(Attr(m, "LKA7"), a[3])
        c3 == ModuleCall(Attr(m, "X3"), a[1])
        c5 == ModuleCall(Attr(m, "X5"), a[2])
        c7 == ModuleCall(Attr(m, "X7"), a[3])
        g3 == Elementwise(l3, c3)
        g5 == Elementwise(l5, c5)
        g7 == Elementwise(l7, c7)
        gs == <<g3, g5, g7>>
        acat == Cat1(gs)
        xa == Elementwise(ax[2], acat)
        x3 == ModuleCall(Attr(m, "proj_last"), xa)
        x4 == Elementwise(x3, Tensor(Attr(m, "scale").shape))
    IN  Elementwise(x4, shortcut)

(* --------------------------------- MAB --------------------------------- *)
MAB_init(n_feats) ==
    Assemble("MAB",
        << <<"LKA", MLKA_init(n_feats)>>,
           <<"LFE", GSAU_init(n_feats)>> >>)

MAB_forward(m, x0) ==
    LET x1 == ModuleCall(Attr(m, "LKA"), x0)
    IN  ModuleCall(Attr(m, "LFE"), x1)

(* --------------------------------- MCA --------------------------------- *)
\* faulty variant: every branch padded as the kernel-3 branch
MCA_padding_fixed(k) == 1

\* the padding of the branch with kernel size k
MCA_padding(k) == k \div 2

MCA_init(inplanes, planes, stride) ==
    Assemble("MCA",
        << <<"inplanes", Ok(inplanes)>>,
           <<"planes", Ok(planes)>>,
           <<"stride", Ok(stride)>>,
           <<"k3", Ok(3)>>,
           <<"k5", Ok(5)>>,
           <<"k7", Ok(7)>>,
           <<"cnn3", Conv1d_init(inplanes, planes, 3, stride, MCA_padding(3), 1, 1)>>,
           <<"cnn5", Conv1d_init(inplanes, planes, 5, stride, MCA_padding(5), 1, 1)>>,
           <<"cnn7", Conv1d_init(inplanes, planes, 7, stride, MCA_padding(7), 1, 1)>>,
           <<"MAB3", MAB_init(planes)>>,
           <<"MAB5", MAB_init(planes)>>,
           <<"MAB7", MAB_init(planes)>> >>)

\* the statements of a forward body run in order: the first one that does not
\* yield a tensor ends the call, so every returned name carries its outcome
FirstBlocked(vs) ==
    LET bad == {i \in 1..Len(vs) : ~IsTensor(vs[i])}
    IN  IF bad = {} THEN 0 ELSE CHOOSE i \in bad : \A j \in bad : i <= j

MCA_forward(m, a) ==
    LET c == << ModuleCall(Attr(m, "cnn3"), a[1]),
                ModuleCall(Attr(m, "cnn5"), a[2]),
                ModuleCall(Attr(m, "cnn7"), a[3]) >>
        r == << ModuleCall(Attr(m, "MAB3"), c[1]),
                ModuleCall(Attr(m, "MAB5"), c[2]),
                ModuleCall(Attr(m, "MAB7"), c[3]) >>
        kc == FirstBlocked(c)
        kr == FirstBlocked(r)
    IN  IF kc # 0 THEN <<Blocked(c[kc]), Blocked(c[kc]), Blocked(c[kc])>>
        ELSE IF kr # 0 THEN <<Blocked(r[kr]), Blocked(r[kr]), Blocked(r[kr])>>
        ELSE r

(* --------------------------------- Our --------------------------------- *)
GRUInputSize == 38
GRUHiddenSize == 19
GRULayers == 2
FcHidden == 512
NumClasses == 18

Our_init(n_feats) ==
    LET i_feats == 3 * n_feats
    IN  Assemble("Our",
        << <<"proj_first", Sequential_init(<<Conv1d_init(n_feats, i_feats, 1, 1, 0, 1, 1)>>)>>,
           <<"MCA1", MCA_init(n_feats, n_feats * 2, 2)>>,
           <<"MCA2", MCA_init(n_feats * 2, n_feats * 4, 2)>>,
           <<"MCA3", MCA_init(n_feats * 4, n_feats * 8, 2)>>,
           <<"biGRU", GRU_init(GRUInputSize, GRUHiddenSize, GRULayers, TRUE)>>,
           <<"flatten", Ok([cls |-> "Flatten"])>>,
           <<"fc", Sequential_init(<< Linear_init(n_feats * 8 * 3 * 38, FcHidden),
                                      Linear_init(FcHidden, NumClasses) >>)>> >>)

\* Our.forward: every intermediate tensor in program order; the value returned
\* to the caller is the field result
Our_forward(m, sensor_a, sensor_g) ==
    LET xs == <<sensor_a, sensor_g>>
        x_cat == Cat1(xs)
        x_proj == ModuleCall(Attr(m, "proj_first"), x_cat)
        ps == Chunk(x_proj, 3)
        a0 == Unpack(ps, 3)
        a1 == ModuleCall(Attr(m, "MCA1"), a0)
        a2 == ModuleCall(Attr(m, "MCA2"), a1)
        a3 == ModuleCall(Attr(m, "MCA3"), a2)
        a_cat == Cat1(a3)
        x_gru == ModuleCall(Attr(m, "biGRU"), a_cat)
        x_flat == ModuleCall(Attr(m, "flatten"), x_gru)
        x_fc == ModuleCall(Attr(m, "fc"), x_flat)
    IN  [cat |-> x_cat, proj |-> x_proj, chunks |-> a0, mca1 |-> a1, mca2 |-> a2,
         mca3 |-> a3, acat |-> a_cat, gru |-> x_gru, flat |-> x_flat, result |-> x_fc]

(* --------------------------- nn.Module.__call__ ------------------------ *)
ModuleCall(m, x) ==
    CASE m.cls = "Conv1d" -> Conv1d_forward(m, x)
      [] m.cls = "Linear" -> Linear_forward(m, x)
      [] m.cls = "GRU" -> GRU_forward(m, x)
      [] m.cls = "Flatten" -> Flatten_forward(x)
      [] m.cls = "Sequential" -> Sequential_forward(m.layers, x)
      [] m.cls = "LayerNorm" -> LayerNorm_forward(m, x)
      [] m.cls = "GSAU" -> GSAU_forward(m, x)
      [] m.cls = "MLKA" -> MLKA_forward(m, x)
      [] m.cls = "MAB" -> MAB_forward(m, x)
      [] m.cls = "MCA" -> MCA_forward(m, x)
      [] m.cls = "Our" -> Our_forward(m, x[1], x[2])

\* the statement of Our.forward at which the call raised ("" when it returned)
Our_raised_at(t) ==
    IF ~IsTensor(t.cat) THEN "cat"
    ELSE IF ~IsTensor(t.proj) THEN "proj_first"
    ELSE IF FirstBlocked(t.chunks) # 0 THEN "chunk"
    ELSE IF FirstBlocked(t.mca1) # 0 THEN "MCA1"
    ELSE IF FirstBlocked(t.mca2) # 0 THEN "MCA2"
    ELSE IF FirstBlocked(t.mca3) # 0 THEN "MCA3"
    ELSE IF ~IsTensor(t.acat) THEN "cat2"
    ELSE IF ~IsTensor(t.gru) THEN "biGRU"
    ELSE IF ~IsTensor(t.flat) THEN "flatten"
    ELSE IF ~IsTensor(t.result) THEN "fc"
    ELSE ""

(* ============================ the program ============================== *)
DataFormats == RecognizedFormats \cup {"channels_mid", "NCL"}
SensorChannels == 3
Strides == {1, 2}

NoOut == [kind |-> "none"]
NoArgs == <<>>
NoCall == [called |-> FALSE]

\* the channel counts a caller feeds to a module expecting n channels
InputChannels(n) == {c \in {n, n + 1} : c >= 1}

Init ==
    /\ op = "start"
    /\ init_args = NoArgs
    /\ call_args = NoArgs
    /\ obj = NoObject
    /\ exc = NoExc
    /\ built = <<>>
    /\ out = NoOut
    /\ params = {}
    /\ sensor_accel = {}
    /\ sensor_gyro = {}
    /\ hn = {}
    /\ y_pred = {}
    /\ seen = NoCall

\* net = Cls(args): the name is bound only when __init__ returns
Construct(name, args, r) ==
    /\ op = "start"
    /\ op' = name
    /\ init_args' = args
    /\ call_args' = NoArgs
    /\ obj' = r.obj
    /\ exc' = r.exc
    /\ built' = r.built
    /\ out' = NoOut
    /\ UNCHANGED valueVars

NewLayerNorm(normalized_shape, data_format) ==
    Construct("LayerNorm.__init__", <<normalized_shape, data_format>>,
              LayerNorm_init(normalized_shape, data_format))

NewGSAU(n_feats) == Construct("GSAU.__init__", <<n_feats>>, GSAU_init(n_feats))

NewMLKA(n_feats) == Construct("MLKA.__init__", <<n_feats>>, MLKA_init(n_feats))

NewMAB(n_feats) == Construct("MAB.__init__", <<n_feats>>, MAB_init(n_feats))

NewMCA(inplanes, planes, stride) ==
    Construct("MCA.__init__", <<inplanes, planes, stride>>, MCA_init(inplanes, planes, stride))

NewOur(n_feats) == Construct("Our.__init__", <<n_feats>>, Our_init(n_feats))

\* y = net(args): the call's outcome, the module itself is left as it is
Call(name, args, r, e) ==
    /\ op' = name
    /\ call_args' = args
    /\ out' = r
    /\ exc' = e
    /\ UNCHANGED <<init_args, obj, built>>
    /\ UNCHANGED valueVars

CallLayerNorm(x) ==
    /\ LET r == ModuleCall(obj, Tensor(x))
       IN  Call("LayerNorm.forward", <<x>>, r, r.exc)

CallGSAU(x) ==
    /\ LET r == ModuleCall(obj, Tensor(x))
       IN  Call("GSAU.forward", <<x>>, r, r.exc)

CallMLKA(x) ==
    /\ LET r == ModuleCall(obj, Tensor(x))
       IN  Call("MLKA.forward", <<x>>, r, r.exc)

CallMAB(x) ==
    /\ LET r == ModuleCall(obj, Tensor(x))
       IN  Call("MAB.forward", <<x>>, r, r.exc)

CallMCA(x) ==
    /\ LET r == ModuleCall(obj, <<Tensor(x), Tensor(x), Tensor(x)>>)
       IN  Call("MCA.forward", <<x, x, x>>, r, r[1].exc)

CallOur(accel, gyro) ==
    /\ LET t == ModuleCall(obj, <<Tensor(accel), Tensor(gyro)>>)
       IN  Call("Our.forward", <<accel, gyro>>, t, t.result.exc)

\* the script of __main__: one module is constructed, then called once
ShapeNext ==
    \/ \E ns \in FeatRange, f \in DataFormats : NewLayerNorm(ns, f)
    \/ \E n \in FeatRange : NewGSAU(n)
    \/ \E n \in FeatRange : NewMLKA(n)
    \/ \E n \in FeatRange : NewMAB(n)
    \/ \E i \in FeatRange, k \in 1..2, s \in Strides : NewMCA(i, k * i, s)
    \/ \E n \in FeatRange : NewOur(n)
    \/ /\ op = "LayerNorm.__init__"
       /\ obj.cls = "LayerNorm"
       /\ \E b \in Batches, l \in Lengths, c \in InputChannels(init_args[1]) :
            CallLayerNorm(<<b, c, l>>)
    \/ /\ op = "GSAU.__init__"
       /\ obj.cls = "GSAU"
       /\ \E b \in Batches, l \in Lengths, c \in InputChannels(init_args[1]) :
            CallGSAU(<<b, c, l>>)
    \/ /\ op = "MLKA.__init__"
       /\ obj.cls = "MLKA"
       /\ \E b \in Batches, l \in Lengths, c \in InputChannels(init_args[1]) :
            CallMLKA(<<b, c, l>>)
    \/ /\ op = "MAB.__init__"
       /\ obj.cls = "MAB"
       /\ \E b \in Batches, l \in Lengths, c \in InputChannels(init_args[1]) :
            CallMAB(<<b, c, l>>)
    \/ /\ op = "MCA.__init__"
       /\ obj.cls = "MCA"
       /\ \E b \in Batches, l \in Lengths, c \in InputChannels(init_args[1]) :
            CallMCA(<<b, c, l>>)
    \/ /\ op = "Our.__init__"
       /\ obj.cls = "Our"
       /\ \E b \in Batches, l \in Lengths, d \in {0, 1} :
            CallOur(<<b, SensorChannels, l>>, <<b, SensorChannels, l + d>>)

Next == ShapeNext

Spec == Init /\ [][Next]_vars

(* ======================= contents of the tensors ======================= *)
\* The second specification follows what the tensors hold instead of their
\* shapes.  What a tensor holds is summarised by the set of stored contents it
\* was computed from: <<storage, id>> says that storage held its id-th content.
\* A local name is bound either to a tensor of its own or to a view of storage
\* that outlives the call: the parameters, the caller's two inputs, and hn, the
\* final hidden state that the last call returned.
MaxId == 1
Ids == 0..MaxId

Content(cell, id) == {<<cell, id>>}
Zeros == {}

Fresh(v) == [alias |-> "", val |-> v]
View(cell) == [alias |-> cell, val |-> {}]
Unbound == [alias |-> "unbound", val |-> {}]
Read(mem, b) == IF b.alias \in {"", "unbound"} THEN b.val ELSE mem[b.alias]

\* a functional operator returns a new tensor computed from its operands
Combine(vs) == UNION {vs[i] : i \in 1..Len(vs)}

Functional == {"clone", "mean", "sub", "pow", "add_eps", "sqrt", "div", "mul",
               "add", "cat", "layer_norm"}
Views == {"chunk", "index"}
Parameters == {"self.weight", "self.bias", "self.scale"}

Locals == {"x", "u", "s", "w", "b", "t1", "t2", "t3", "t4", "shortcut", "a",
           "a_1", "a_2", "a_3", "_", "input", "sensor_accel", "sensor_gyro",
           "y_pred", "last_hn"}

\* the statements of each forward, one operator application per instruction:
\* <<names assigned, operator, operands>>; ret names the returned locals
LayerNorm_body(m) ==
    IF Attr(m, "data_format") = "channels_last"
    THEN [args |-> <<"x">>, ret |-> <<"x">>, body |->
          << <<<<"w">>, "self.weight", <<>>>>,
             <<<<"b">>, "self.bias", <<>>>>,
             <<<<"x">>, "layer_norm", <<"x", "w", "b">>>> >>]
    ELSE [args |-> <<"x">>, ret |-> <<"x">>, body |->
          << <<<<"u">>, "mean", <<"x">>>>,
             <<<<"t1">>, "sub", <<"x", "u">>>>,
             <<<<"t1">>, "pow", <<"t1">>>>,
             <<<<"s">>, "mean", <<"t1">>>>,
             <<<<"t1">>, "sub", <<"x", "u">>>>,
             <<<<"t2">>, "add_eps", <<"s">>>>,
             <<<<"t2">>, "sqrt", <<"t2">>>>,
             <<<<"x">>, "div", <<"t1", "t2">>>>,
             <<<<"w">>, "self.weight", <<>>>>,
             <<<<"w">>, "index", <<"w">>>>,
             <<<<"t1">>, "mul", <<"w", "x">>>>,
             <<<<"b">>, "self.bias", <<>>>>,
             <<<<"b">>, "index", <<"b">>>>,
             <<<<"x">>, "add", <<"t1", "b">>>> >>]

GSAU_body ==
    [args |-> <<"x">>, ret |-> <<"x">>, body |->
     << <<<<"shortcut">>, "clone", <<"x">>>>,
        <<<<"x">>, "call", <<"norm", "x">>>>,
        <<<<"x">>, "call", <<"Conv1", "x">>>>,
        <<<<"a", "x">>, "chunk", <<"x">>>>,
        <<<<"t1">>, "call", <<"DWConv1", "a">>>>,
        <<<<"x">>, "mul", <<"x", "t1">>>>,
        <<<<"x">>, "call", <<"Conv2", "x">>>>,
        <<<<"t1">>, "self.scale", <<>>>>,
        <<<<"t1">>, "mul", <<"x", "t1">>>>,
        <<<<"x">>, "add", <<"t1", "shortcut">>>> >>]

MLKA_body ==
    [args |-> <<"x">>, ret |-> <<"x">>, body |->
     << <<<<"shortcut">>, "clone", <<"x">>>>,
        <<<<"x">>, "call", <<"norm", "x">>>>,
        <<<<"x">>, "call", <<"proj_first", "x">>>>,
        <<<<"a", "x">>, "chunk", <<"x">>>>,
        <<<<"a_1", "a_2", "a_3">>, "chunk", <<"a">>>>,
        <<<<"t1">>, "call", <<"LKA3", "a_1">>>>,
        <<<<"t2">>, "call", <<"X3", "a_1">>>>,
        <<<<"t1">>, "mul", <<"t1", "t2">>>>,
        <<<<"t2">>, "call", <<"LKA5", "a_2">>>>,
        <<<<"t3">>, "call", <<"X5", "a_2">>>>,
        <<<<"t2">>, "mul", <<"t2", "t3">>>>,
        <<<<"t3">>, "call", <<"LKA7", "a_3">>>>,
        <<<<"t4">>, "call", <<"X7", "a_3">>>>,
        <<<<"t3">>, "mul", <<"t3", "t4">>>>,
        <<<<"a">>, "cat", <<"t1", "t2", "t3">>>>,
        <<<<"t1">>, "mul", <<"x", "a">>>>,
        <<<<"t1">>, "call", <<"proj_last", "t1">>>>,
        <<<<"t2">>, "self.scale", <<>>>>,
        <<<<"t1">>, "mul", <<"t1", "t2">>>>,
        <<<<"x">>, "add", <<"t1", "shortcut">>>> >>]

MAB_body ==
    [args |-> <<"x">>, ret |-> <<"x">>, body |->
     << <<<<"x">>, "call", <<"LKA", "x">>>>,
        <<<<"x">>, "call", <<"LFE", "x">>>> >>]

MCA_body ==
    [args |-> <<"a_1", "a_2", "a_3">>, ret |-> <<"a_1", "a_2", "a_3">>, body |->
     << <<<<"a_1">>, "call", <<"cnn3", "a_1">>>>,
        <<<<"a_2">>, "call", <<"cnn5", "a_2">>>>,
        <<<<"a_3">>, "call", <<"cnn7", "a_3">>>>,
        <<<<"a_1">>, "call", <<"MAB3", "a_1">>>>,
        <<<<"a_2">>, "call", <<"MAB5", "a_2">>>>,
        <<<<"a_3">>, "call", <<"MAB7", "a_3">>>> >>]

\* faulty variant: the hidden state of the last call is handed back to the GRU
biGRU_hx_carried == <<"last_hn">>

\* the hx operand of the biGRU call: none is passed
biGRU_hx == <<>>

Our_body ==
    [args |-> <<"sensor_accel", "sensor_gyro">>, ret |-> <<"x", "_">>, body |->
     << <<<<"x">>, "cat", <<"sensor_accel", "sensor_gyro">>>>,
        <<<<"x">>, "call", <<"proj_first", "x">>>>,
        <<<<"a_1", "a_2", "a_3">>, "chunk", <<"x">>>>,
        <<<<"a_1", "a_2", "a_3">>, "call", <<"MCA1", "a_1", "a_2", "a_3">>>>,
        <<<<"a_1", "a_2", "a_3">>, "call", <<"MCA2", "a_1", "a_2", "a_3">>>>,
        <<<<"a_1", "a_2", "a_3">>, "call", <<"MCA3", "a_1", "a_2", "a_3">>>>,
        <<<<"a">>, "cat", <<"a_1", "a_2", "a_3">>>>,
        <<<<"x", "_">>, "call", <<"biGRU", "a">> \o biGRU_hx>>,
        <<<<"x">>, "call", <<"flatten", "x">>>>,
        <<<<"x">>, "call", <<"fc", "x">>>> >>]

BodyOf(m) ==
    CASE m.cls = "LayerNorm" -> LayerNorm_body(m)
      [] m.cls = "GSAU" -> GSAU_body
      [] m.cls = "MLKA" -> MLKA_body
      [] m.cls = "MAB" -> MAB_body
      [] m.cls = "MCA" -> MCA_body
      [] m.cls = "Our" -> Our_body

\* Calls are laid out flat: every instruction carries the depth of the frame it
\* runs in, "enter" binds the callee's parameters (depth d + 1) to the caller's
\* operands (depth d), "leave" binds the caller's names to what was returned.
\* __main__ is depth 0; the deepest frames are those of LayerNorm and Sequential.
Depths == 0..5
BuiltIn == {"Conv1d", "Linear", "Flatten", "GRU"}

RECURSIVE Compile(_, _)
RECURSIVE CompileBody(_, _, _, _, _)
RECURSIVE CompileLayers(_, _, _)

\* dsts = module(*operands), written in a frame of depth d
CompileCall(m, d, dsts, operands) ==
    IF m.cls \in BuiltIn THEN << <<d, dsts, m.cls, operands>> >>
    ELSE IF m.cls = "Sequential"
    THEN << <<d, <<"input">>, "enter", operands>> >>
         \o CompileLayers(m.layers, Len(m.layers), d + 1)
         \o << <<d, dsts, "leave", <<"input">>>> >>
    ELSE << <<d, BodyOf(m).args, "enter", operands>> >>
         \o Compile(m, d + 1)
         \o << <<d, dsts, "leave", BodyOf(m).ret>> >>

\* nn.Sequential.forward: for module in self: input = module(input)
CompileLayers(layers, n, d) ==
    IF n = 0 THEN <<>>
    ELSE CompileLayers(layers, n - 1, d)
         \o CompileCall(layers[n], d, <<"input">>, <<"input">>)

\* instructions lo..hi of a body, sub-module calls laid out in place
CompileBody(m, body, lo, hi, d) ==
    IF lo > hi THEN <<>>
    ELSE IF lo < hi
    THEN CompileBody(m, body, lo, (lo + hi) \div 2, d)
         \o CompileBody(m, body, (lo + hi) \div 2 + 1, hi, d)
    ELSE IF body[lo][2] = "call"
    THEN CompileCall(Attr(m, body[lo][3][1]), d, body[lo][1], Tail(body[lo][3]))
    ELSE << <<d, body[lo][1], body[lo][2], body[lo][3]>> >>

Compile(m, d) == CompileBody(m, BodyOf(m).body, 1, Len(BodyOf(m).body), d)

\* names[i] = bs[i] for every i, in the frame of depth d
RECURSIVE Bind(_, _, _, _)
Bind(env, d, names, bs) ==
    IF names = <<>> THEN env
    ELSE Bind([env EXCEPT ![<<d, names[1]>>] = bs[1]], d, Tail(names), Tail(bs))

\* what the first n names are bound to in the frame of depth d
RECURSIVE Lookup(_, _, _, _)
Lookup(env, d, names, n) ==
    IF n = 0 THEN <<>> ELSE Append(Lookup(env, d, names, n - 1), env[<<d, names[n]>>])

\* what the first n bindings hold
RECURSIVE ReadAll(_, _, _)
ReadAll(mem, bs, n) ==
    IF n = 0 THEN <<>> ELSE Append(ReadAll(mem, bs, n - 1), Read(mem, bs[n]))

\* a view per assigned name, all of the same storage
RECURSIVE Pieces(_, _)
Pieces(b, n) == IF n = 0 THEN <<>> ELSE Append(Pieces(b, n - 1), b)

\* nn.GRU.forward(input, hx): zeros stand for an absent hx; returns (output, h_n)
GRU_value(mem, vs) ==
    LET h0 == IF Len(vs) = 1 THEN Zeros ELSE vs[2]
        output == Combine(<<mem.params, vs[1], h0>>)
    IN  [h0 |-> h0, rets |-> <<Fresh(output), Fresh(Combine(<<output>>))>>]

\* the locals and storage once an instruction is done
Done(env, mem) == [env |-> env, mem |-> mem, exc |-> NoExc]

\* one instruction, from the locals and storage st to those after it; reading
\* a name that was never assigned raises
Step(ins, st) ==
    LET d == ins[1]
        bs == Lookup(st.env, IF ins[3] = "leave" THEN d + 1 ELSE d, ins[4], Len(ins[4]))
        vs == ReadAll(st.mem, bs, Len(bs))
    IN  IF \E i \in 1..Len(ins[4]) : bs[i] = Unbound
        THEN [st EXCEPT !.exc = Exc("UnboundLocalError", "python")]
        ELSE CASE ins[3] \in Functional ->
                    Done([st.env EXCEPT ![<<d, ins[2][1]>>] = Fresh(Combine(vs))], st.mem)
               [] ins[3] \in Views ->
                    Done(Bind(st.env, d, ins[2], Pieces(bs[1], Len(ins[2]))), st.mem)
               [] ins[3] \in Parameters ->
                    Done([st.env EXCEPT ![<<d, ins[2][1]>>] = View("params")], st.mem)
               [] ins[3] = "enter" ->
                    Done(Bind(st.env, d + 1, ins[2], bs), st.mem)
               [] ins[3] = "leave" ->
                    Done(Bind(st.env, d, ins[2], bs), st.mem)
               [] ins[3] \in {"Conv1d", "Linear"} ->
                    Done([st.env EXCEPT ![<<d, ins[2][1]>>] =
                             Fresh(Combine(<<st.mem.params, vs[1]>>))], st.mem)
               [] ins[3] = "Flatten" ->
                    Done([st.env EXCEPT ![<<d, ins[2][1]>>] = bs[1]], st.mem)
               [] ins[3] = "GRU" ->
                    Done(Bind(st.env, d, ins[2], GRU_value(st.mem, vs).rets),
                         [st.mem EXCEPT !.h0 = GRU_value(st.mem, vs).h0])

\* instructions lo..hi in program order: the first half, then the second half
\* from where the first half ends; nothing runs once an instruction has raised
RECURSIVE Exec(_, _, _, _)
Exec(prog, lo, hi, st) ==
    IF lo > hi \/ st.exc # NoExc THEN st
    ELSE IF lo = hi THEN Step(prog[lo], st)
    ELSE LET mid == (lo + hi) \div 2
             half == Exec(prog, lo, mid, st)
         IN  Exec(prog, mid + 1, hi, half)

\* the frames before a call made from __main__: operands are views of the
\* caller's storage, and last_hn names the storage hn in every frame
Frames(names) ==
    [k \in Depths \X Locals |->
        IF k[2] = "last_hn" THEN View("hn")
        ELSE IF k[1] = 0 /\ \E i \in 1..Len(names) : names[i] = k[2] THEN View(k[2])
        ELSE Unbound]

\* dsts = net(*operands) in __main__
Run(m, dsts, operands, mem) ==
    LET prog == CompileCall(m, 0, dsts, operands)
        st == Exec(prog, 1, Len(prog), Done(Frames(operands), mem))
    IN  [mem |-> st.mem, exc |-> st.exc,
         rets |-> ReadAll(st.mem, Lookup(st.env, 0, dsts, Len(dsts)), Len(dsts))]

(* ------------------------------ __main__ ------------------------------- *)
MainFeats == 6

InitValue ==
    /\ op = "Our.__init__"
    /\ init_args = <<MainFeats>>
    /\ call_args = NoArgs
    /\ obj = Our_init(MainFeats).obj
    /\ exc = NoExc
    /\ built = Our_init(MainFeats).built
    /\ out = NoOut
    /\ params \in {Content("params", id) : id \in Ids}
    /\ sensor_accel = Content("sensor_accel", 0)
    /\ sensor_gyro = Content("sensor_gyro", 0)
    /\ hn = Content("hn", 0)
    /\ y_pred = {}
    /\ seen = NoCall

\* sensor_accel = torch.randn(...); sensor_gyro = torch.randn(...)
NewInputs(accel, gyro) ==
    /\ op' = "torch.randn"
    /\ sensor_accel' = Content("sensor_accel", accel)
    /\ sensor_gyro' = Content("sensor_gyro", gyro)
    /\ UNCHANGED <<init_args, call_args, obj, exc, built, out, params, hn, y_pred, seen>>

\* y_pred = net(sensor_accel, sensor_gyro)
Forward ==
    LET mem == [params |-> params, sensor_accel |-> sensor_accel,
                sensor_gyro |-> sensor_gyro, hn |-> hn, h0 |-> Zeros]
        r == Run(obj, <<"y_pred", "_">>, <<"sensor_accel", "sensor_gyro">>, mem)
        y == r.rets[1]
    IN  /\ op' = "Our.forward"
        /\ call_args' = <<sensor_accel, sensor_gyro, params>>
        /\ out' = [kind |-> "value", h0 |-> r.mem.h0]
        /\ params' = r.mem.params
        /\ sensor_accel' = r.mem.sensor_accel
        /\ sensor_gyro' = r.mem.sensor_gyro
        /\ hn' = r.rets[2]
        /\ y_pred' = y
        /\ seen' = IF ~seen.called
                   THEN [called |-> TRUE, args |-> <<sensor_accel, sensor_gyro, params>>,
                         y_pred |-> y, between |-> FALSE]
                   ELSE [seen EXCEPT !.between =
                            @ \/ <<sensor_accel, sensor_gyro, params>> # seen.args]
        /\ exc' = r.exc
        /\ UNCHANGED <<init_args, obj, built>>

ValueNext ==
    \/ \E accel \in Ids, gyro \in Ids : NewInputs(accel, gyro)
    \/ Forward

SpecValue == InitValue /\ [][ValueNext]_vars

(* ============================== properties ============================= *)
IsOurCall == op = "Our.forward"
OurFeats == init_args[1]
CallBatch == call_args[1][1]
\* both sensors of shape (B, 3, len)
SensorsOfLength(len) ==
    /\ call_args[1] = <<CallBatch, SensorChannels, len>>
    /\ call_args[2] = <<CallBatch, SensorChannels, len>>
Halve(len) == CeilDiv(len, 2)

\* C1: for every n_feats divisible by 6 and every batch size B >= 1,
\* Our(n_feats).forward on two (B, 3, 300) inputs returns a (B, 18) tensor.
C1_EveryFeatsDivisibleBySix ==
    (IsOurCall /\ OurFeats % 6 = 0 /\ SensorsOfLength(300))
        => out.result = Tensor(<<CallBatch, NumClasses>>)

\* C2: MLKA(n_feats) raises the ValueError of MLKA.__init__ for every integer
\* n_feats with n_feats % 3 # 0, before any attribute (norm, scale, the
\* convolutions) of that MLKA has been created.
C2_MLKARejectsNonMultiplesOfThree ==
    (op = "MLKA.__init__" /\ init_args[1] % 3 # 0)
        => /\ exc = Exc("ValueError", "MLKA")
           /\ obj = NoObject
           /\ built = <<>>

C2_Witness ==
    /\ op = "MLKA.__init__"
    /\ init_args[1] = 0 - 7
    /\ exc = Exc("ValueError", "MLKA")
    /\ built = <<>>

\* C3: LayerNorm.__init__ fails for every data_format other than the two
\* recognized strings (with NotImplementedError whenever normalized_shape is a
\* valid size), constructs for each recognized string, and LayerNorm.forward
\* only runs with a recognized format and never returns None.
C3_LayerNormFormats ==
    /\ (op = "LayerNorm.__init__" /\ init_args[2] \notin RecognizedFormats)
          => /\ exc # NoExc
             /\ obj = NoObject
             /\ init_args[1] >= 0 => exc = Exc("NotImplementedError", "LayerNorm")
    /\ (op = "LayerNorm.__init__" /\ init_args[2] \in RecognizedFormats /\ init_args[1] >= 0)
          => /\ exc = NoExc
             /\ obj.cls = "LayerNorm"
             /\ Attr(obj, "data_format") = init_args[2]
    /\ op = "LayerNorm.forward"
          => /\ Attr(obj, "data_format") \in RecognizedFormats
             /\ out.kind # "None"

C3_Witness ==
    /\ op = "LayerNorm.__init__"
    /\ init_args = <<6, "channels_mid">>
    /\ exc = Exc("NotImplementedError", "LayerNorm")
    /\ built = <<"weight", "bias", "eps", "data_format">>

\* the data_format of every LayerNorm inside an Our module
OurLayerNormFormats ==
    { Attr(Attr(Attr(Attr(obj, mca), mab), blk), "norm").attrs[4][2] :
        mca \in {"MCA1", "MCA2", "MCA3"}, mab \in {"MAB3", "MAB5", "MAB7"},
        blk \in {"LKA", "LFE"} }

\* the n_feats of the MLKA blocks built in the MCA stage named mca
MLKAWidths(mca) ==
    { Attr(Attr(Attr(Attr(obj, mca), mab), "LKA"), "norm").attrs[5][2][1] :
        mab \in {"MAB3", "MAB5", "MAB7"} }

\* C4: for every positive n_feats, Our(n_feats) either constructs or raises the
\* ValueError of MLKA.__init__, the latter exactly when n_feats % 3 # 0; the
\* MLKA widths built are 2, 4 and 8 times n_feats; every LayerNorm inside is
\* channels_first, so NotImplementedError is never raised; and a constructed
\* Our whose n_feats differs from the 6 concatenated sensor channels fails only
\* at forward time, with a framework error at proj_first.
C4_OnlyConstructorValidations ==
    /\ (op = "Our.__init__" /\ OurFeats > 0)
          => /\ \/ exc = NoExc /\ obj.cls = "Our"
                \/ exc = Exc("ValueError", "MLKA") /\ obj = NoObject
             /\ exc = Exc("ValueError", "MLKA") <=> OurFeats % 3 # 0
             /\ exc = NoExc =>
                  /\ MLKAWidths("MCA1") = {2 * OurFeats}
                  /\ MLKAWidths("MCA2") = {4 * OurFeats}
                  /\ MLKAWidths("MCA3") = {8 * OurFeats}
                  /\ OurLayerNormFormats = {"channels_first"}
    /\ op \in {"Our.__init__", "Our.forward", "MCA.__init__", "MAB.__init__",
               "MLKA.__init__", "GSAU.__init__"}
          => exc.type # "NotImplementedError"
    /\ (IsOurCall /\ OurFeats # 2 * SensorChannels /\ call_args[1] = call_args[2])
          => /\ exc = TorchError
             /\ Our_raised_at(out) = "proj_first"

C4_Witness ==
    /\ op = "Our.__init__"
    /\ OurFeats = 4
    /\ exc = Exc("ValueError", "MLKA")
    /\ built = <<"proj_first">>

AllThree(vs, s) == \A i \in 1..3 : vs[i] = Tensor(s)

\* C5: with n_feats = 6 and two (B, 3, 300) inputs the tensors along
\* Our.forward have the shapes (B,6,300), (B,18,300), 3 x (B,6,300),
\* 3 x (B,12,150), 3 x (B,24,75), 3 x (B,48,38), (B,144,38), (B,144,38),
\* (B,5472) = the first Linear layer's in_features, and (B,18).
C5_ShapesAlongForward ==
    (IsOurCall /\ OurFeats = 6 /\ SensorsOfLength(300))
        => LET b == CallBatch
           IN  /\ out.cat = Tensor(<<b, 6, 300>>)
               /\ out.proj = Tensor(<<b, 18, 300>>)
               /\ AllThree(out.chunks, <<b, 6, 300>>)
               /\ AllThree(out.mca1, <<b, 12, 150>>)
               /\ AllThree(out.mca2, <<b, 24, 75>>)
               /\ AllThree(out.mca3, <<b, 48, 38>>)
               /\ out.acat = Tensor(<<b, 144, 38>>)
               /\ out.gru = Tensor(<<b, 144, 38>>)
               /\ Attr(obj, "biGRU").input_size = 38
               /\ 2 * Attr(obj, "biGRU").hidden_size = 38
               /\ out.flat = Tensor(<<b, 5472>>)
               /\ Attr(obj, "fc").layers[1].in_features = 5472
               /\ out.result = Tensor(<<b, 18>>)

C5_Witness ==
    /\ IsOurCall
    /\ OurFeats = 6
    /\ SensorsOfLength(300)
    /\ CallBatch = 2
    /\ out.flat = Tensor(<<2, 5472>>)

\* C6: MAB(n_feats) constructs for every positive n_feats divisible by 3, and
\* its forward returns the shape (B, n_feats, L) of its input for every L >= 1.
C6_MABPreservesShape ==
    /\ (op = "MAB.__init__" /\ init_args[1] > 0 /\ init_args[1] % 3 = 0)
          => exc = NoExc /\ obj.cls = "MAB"
    /\ (op = "MAB.forward" /\ call_args[1][2] = init_args[1])
          => out = Tensor(call_args[1])

C6_Witness ==
    /\ op = "MAB.forward"
    /\ init_args = <<9>>
    /\ call_args = << <<2, 9, 1>> >>
    /\ out = Tensor(<<2, 9, 1>>)

\* C7: an MCA built with stride 2 maps three inputs of equal shape
\* (B, inplanes, L) to three outputs of the one shape (B, planes, ceil(L/2)),
\* where floor((L-1)/2)+1 = ceil(L/2).
C7_MCABranchesAgree ==
    (op = "MCA.forward" /\ init_args[3] = 2 /\ call_args[1][2] = init_args[1])
        => LET len == call_args[1][3]
           IN  /\ ((len - 1) \div 2) + 1 = Halve(len)
               /\ AllThree(out, <<CallBatch, init_args[2], Halve(len)>>)

C7_Witness ==
    /\ op = "MCA.forward"
    /\ init_args = <<6, 12, 2>>
    /\ call_args[1] = <<1, 6, 75>>
    /\ AllThree(out, <<1, 12, 38>>)

\* C8: with n_feats = 6 and two inputs (B, 3, L) of equal L, Our.forward
\* returns (B, 18) exactly when ceil(ceil(ceil(L/2)/2)/2) = 38, that is for
\* 297 <= L <= 304; for every other L it raises a framework error at the biGRU
\* and in no case returns a tensor of another shape.
C8_AcceptedLengths ==
    (IsOurCall /\ OurFeats = 6 /\ call_args[1] = call_args[2])
        => LET len == call_args[1][3]
               ok == out.result = Tensor(<<CallBatch, NumClasses>>)
           IN  /\ ok <=> Halve(Halve(Halve(len))) = GRUInputSize
               /\ ok <=> (297 <= len /\ len <= 304)
               /\ ~ok => /\ exc = TorchError
                         /\ out.result = Raised(TorchError)
                         /\ Our_raised_at(out) = "biGRU"

C8_Witness ==
    /\ IsOurCall
    /\ OurFeats = 6
    /\ SensorsOfLength(305)
    /\ Our_raised_at(out) = "biGRU"

\* C9: a forward call leaves the parameters and the caller's inputs as they
\* were, starts the GRU from the zero hidden state whatever the last call left
\* behind, and returns what the first call with the same inputs and parameters
\* returned, whichever calls happened in between.
C9_ForwardStateless ==
    op = "Our.forward" =>
        /\ params = call_args[3]
        /\ sensor_accel = call_args[1]
        /\ sensor_gyro = call_args[2]
        /\ exc = NoExc
        /\ out.h0 = Zeros
        /\ seen.called
        /\ seen.args = call_args => y_pred = seen.y_pred

C9_Witness ==
    /\ op = "Our.forward"
    /\ seen.called
    /\ seen.between
    /\ seen.args = call_args
    /\ hn # Zeros
    /\ y_pred = seen.y_pred

====
